---- MODULE Spec2Model ----
(***************************************************************************)
(* Model of the Formula Engine of the data encoder                         *)
(* (src/src/services/encodingService.ts, class EncodingService).           *)
(*                                                                         *)
(* A JavaScript string is a sequence of UTF-16 code units (what            *)
(* text.split('') yields); the other JavaScript values that can reach the  *)
(* engine are tagged records.  A call's outcome is a completion record:    *)
(* either a normal return with a value or a thrown error.                  *)
(***************************************************************************)
EXTENDS FiniteSets, Integers, Sequences, TLC

\* the Formula Engine's caller: the value and the formula descriptor it holds,
\* the JavaScript global object, the last call and its outcome
VARIABLES value, formula, jsGlobal, last

\* the Configuration Manager (src/src/context/ConfigurationContext.tsx): its
\* React state, the browser's localStorage, the clock Date.now() reads,
\* whether the mount effect has run, and two records of what happened: every
\* successful save since localStorage was empty (saveLog), and the history
\* the provider loaded at mount followed by its own successful saves
\* (sessionLog)
VARIABLES currentConfig, configHistory, savedFormulas, isLoading,
          localStorage, now, saveLog, sessionLog, mounted

\* the login page (src/src/components/LoginPage.tsx): its React state,
\* whether onLogin(true) was called, the passkey localStorage held when the
\* page was opened, and whether the user has typed that passkey since
VARIABLES passkey, error, isChangingPasskey, newPasskey, confirmPasskey,
          isFirstTime, loggedIn, originalPasskey, typedOriginal

\* the dashboard of src/src/App.tsx: its React state and the interval timers
\* setInterval has started and nothing has cleared
VARIABLES isProcessing, configuration, lastProcessedTimestamp, processIntervals

engineVars == <<value, formula, jsGlobal>>

providerVars == <<currentConfig, configHistory, savedFormulas, isLoading,
                  saveLog, sessionLog, mounted>>

browserVars == <<localStorage, now>>

configVars == <<providerVars, browserVars>>

loginVars == <<passkey, error, isChangingPasskey, newPasskey, confirmPasskey,
               isFirstTime, loggedIn, originalPasskey, typedOriginal>>

appVars == <<isProcessing, configuration, lastProcessedTimestamp, processIntervals>>

vars == <<engineVars, last, configVars, loginVars, appVars>>

(***************************************************************************)
(* Bounds of the model.                                                    *)
(***************************************************************************)
\* longest string enumerated over Alphabet (the worked examples are longer)
MaxLen == 2
\* shiftValue ranges over -MaxShift .. MaxShift (wider than one alphabet turn)
MaxShift == 27

(***************************************************************************)
(* JavaScript values.                                                      *)
(***************************************************************************)
Undefined == [type |-> "undefined"]
Null == [type |-> "null"]

Str(s) == [type |-> "string", chars |-> s]
Num(n) == [type |-> "number", num |-> n]
\* the source text of a user transform, kept as text (never indexed)
Src(t) == [type |-> "string", text |-> t]

IsString(v) == v.type = "string"

\* the keys of localStorage the console uses; getItem returns null for a key
\* that was never set
EmptyStorage ==
  [encoder_current_config |-> Null, encoder_config_history |-> Null,
   encoder_saved_formulas |-> Null, encoder_passkey |-> Null,
   encoder_passkey_changed |-> Null, encoderApp |-> Null]

\* the Configuration Manager before its provider is constructed
ProviderIdle ==
  /\ currentConfig = Null
  /\ configHistory = <<>>
  /\ savedFormulas = <<>>
  /\ isLoading = FALSE
  /\ saveLog = <<>>
  /\ sessionLog = <<>>
  /\ mounted = FALSE

ConfigIdle ==
  /\ ProviderIdle
  /\ localStorage = EmptyStorage
  /\ now = 0

\* the login page before it is opened
LoginIdle ==
  /\ passkey = ""
  /\ error = ""
  /\ isChangingPasskey = FALSE
  /\ newPasskey = ""
  /\ confirmPasskey = ""
  /\ isFirstTime = FALSE
  /\ loggedIn = FALSE
  /\ originalPasskey = Null
  /\ typedOriginal = FALSE

\* the dashboard before the application is opened
AppIdle ==
  /\ isProcessing = FALSE
  /\ configuration = Null
  /\ lastProcessedTimestamp = Src("")
  /\ processIntervals = 0

\* the engine's caller when no call is made
EngineIdle ==
  /\ value = Undefined
  /\ formula = Undefined
  /\ jsGlobal = FALSE

\* ToBoolean, as used by `!x` and `x || y`
Truthy(v) ==
  CASE v.type = "undefined" -> FALSE
    [] v.type = "null" -> FALSE
    [] v.type = "number" -> v.num # 0
    [] v.type = "string" ->
         IF "chars" \in DOMAIN v THEN v.chars # <<>> ELSE v.text # ""
    [] OTHER -> TRUE

\* completions of a call
Return(v) == [threw |-> FALSE, val |-> v]
Throw(e) == [threw |-> TRUE, error |-> e]

\* what the caller sees of a result that carries the global state
Outcome(r) == IF r.threw THEN Throw(r.error) ELSE Return(r.val)

\* the remainder operator % of JavaScript: the sign of the dividend
JSRem(a, b) == IF a >= 0 THEN a % b ELSE -((-a) % b)

\* String.fromCharCode: ToUint16 of the argument
FromCharCode(n) == n % 65536

\* code units of the characters the model names
Code == [A |-> 65, B |-> 66, C |-> 67, D |-> 68, E |-> 69, F |-> 70,
         X |-> 88, Y |-> 89, Z |-> 90,
         a |-> 97, b |-> 98, c |-> 99, e |-> 101,
         d0 |-> 48, d1 |-> 49, d2 |-> 50, d3 |-> 51, d4 |-> 52, d5 |-> 53,
         d6 |-> 54, d9 |-> 57, dash |-> 45]

IsUpper(ch) == ch >= 65 /\ ch <= 90
IsLower(ch) == ch >= 97 /\ ch <= 122
\* /[A-Za-z]/.test(char)
IsLetter(ch) == IsUpper(ch) \/ IsLower(ch)
\* /[0-9]/.test(char)
IsDigit(ch) == ch >= 48 /\ ch <= 57
\* /[A-Za-z0-9]/.test(char)
IsAlnum(ch) == IsLetter(ch) \/ IsDigit(ch)

Reverse(s) == [i \in 1..Len(s) |-> s[Len(s) + 1 - i]]

(***************************************************************************)
(* The algorithms.                                                         *)
(***************************************************************************)
\* variant of caesarChar: the shifted code is not wrapped into its alphabet
caesarCharNoWrap(ch, shift) ==
  IF IsAlnum(ch) THEN FromCharCode(ch + shift) ELSE ch

\* variant of caesarChar: the digit branch wraps with the letters' modulus
caesarCharDigitMod26(ch, shift) ==
  IF IsLetter(ch)
  THEN LET base == IF IsUpper(ch) THEN 65 ELSE 97
       IN FromCharCode(JSRem(ch - base + shift + 26, 26) + base)
  ELSE IF IsDigit(ch)
       THEN FromCharCode(JSRem(ch - 48 + shift + 10, 26) + 48)
       ELSE ch

caesarChar(ch, shift) ==
  IF IsLetter(ch)
  THEN LET base == IF IsUpper(ch) THEN 65 ELSE 97
       IN FromCharCode(JSRem(ch - base + shift + 26, 26) + base)
  ELSE IF IsDigit(ch)
       THEN FromCharCode(JSRem(ch - 48 + shift + 10, 10) + 48)
       ELSE ch

caesarCipher(text, shift) == [i \in 1..Len(text) |-> caesarChar(text[i], shift)]

\* text.match(/[A-Za-z0-9]/g) || []
alphanumericOf(text) == SelectSeq(text, IsAlnum)

\* variant of digitReversal: the taken element is tested as a number, so that
\* a '0' is falsy and the original character is kept in its place
digitReversalFalsyZero(text) ==
  LET reversed == Reverse(alphanumericOf(text))
      reversedIndex(i) == Len(alphanumericOf(SubSeq(text, 1, i - 1)))
  IN [i \in 1..Len(text) |->
        IF IsAlnum(text[i]) /\ reversed[reversedIndex(i) + 1] # 48
        THEN reversed[reversedIndex(i) + 1]
        ELSE text[i]]

\* variant of digitReversal: the whole string is reversed, the characters
\* that are no letters or digits included
digitReversalWholeString(text) == Reverse(text)

digitReversal(text) ==
  LET reversed == Reverse(alphanumericOf(text))
      \* value of reversedIndex when position i is visited
      reversedIndex(i) == Len(alphanumericOf(SubSeq(text, 1, i - 1)))
  IN [i \in 1..Len(text) |->
        IF IsAlnum(text[i])
        THEN \* reversed[reversedIndex++] || char
             IF reversedIndex(i) + 1 <= Len(reversed)
             THEN reversed[reversedIndex(i) + 1]
             ELSE text[i]
        ELSE text[i]]

\* variant of positionShift: the final `% length` is missing, so the slice
\* offset can reach past the end (slice clamps it)
positionShiftNoWrap(text, shift) ==
  LET length == Len(text)
  IN IF length <= 1
     THEN text
     ELSE LET actualShift == JSRem(shift, length) + length
              cut == IF actualShift > length THEN length ELSE actualShift
          IN SubSeq(text, cut + 1, length) \o SubSeq(text, 1, cut)

\* variant of positionShift: the rotation goes to the right
positionShiftRight(text, shift) ==
  LET length == Len(text)
  IN IF length <= 1
     THEN text
     ELSE LET actualShift == JSRem(JSRem(shift, length) + length, length)
          IN SubSeq(text, length - actualShift + 1, length)
               \o SubSeq(text, 1, length - actualShift)

positionShift(text, shift) ==
  LET length == Len(text)
  IN IF length <= 1
     THEN text
     ELSE LET actualShift == JSRem(JSRem(shift, length) + length, length)
          IN SubSeq(text, actualShift + 1, length) \o SubSeq(text, 1, actualShift)

(***************************************************************************)
(* Custom mappings.  A Record<string, string> whose keys are single        *)
(* characters is the sequence of its <<key, value>> entries in insertion   *)
(* order (distinct keys); a value is a string.                             *)
(***************************************************************************)
MapObj(entries) == [type |-> "object", entries |-> entries]

RECURSIVE Join(_)
\* Array.prototype.join('') of an array of strings
Join(parts) == IF parts = <<>> THEN <<>> ELSE Head(parts) \o Join(Tail(parts))

\* mapping[char]: the value stored under the key, or undefined
Lookup(entries, ch) ==
  IF \E i \in 1..Len(entries) : entries[i][1] = ch
  THEN Str(entries[CHOOSE i \in 1..Len(entries) : entries[i][1] = ch][2])
  ELSE Undefined

customMapping(text, mapping) ==
  Join([i \in 1..Len(text) |->
          LET m == Lookup(mapping.entries, text[i])
          IN IF Truthy(m) THEN m.chars ELSE <<text[i]>>])

RECURSIVE SortByKey(_)
SortByKey(es) ==
  IF es = <<>> THEN <<>>
  ELSE LET lo == CHOOSE i \in 1..Len(es) : \A j \in 1..Len(es) : es[i][1] <= es[j][1]
       IN <<es[lo]>> \o SortByKey(SelectSeq(es, LAMBDA e : e # es[lo]))

IsIndexKey(e) == IsDigit(e[1])
IsNameKey(e) == ~IsDigit(e[1])

\* Object.entries: integer-like keys first, ascending, then the other keys in
\* insertion order (OrdinaryOwnPropertyKeys)
ObjectEntries(mapping) ==
  SortByKey(SelectSeq(mapping.entries, IsIndexKey)) \o SelectSeq(mapping.entries, IsNameKey)

\* variant of ReverseLookup: the first entry with the value wins
ReverseLookupFirst(es, ch) ==
  IF \E i \in 1..Len(es) : es[i][2] = <<ch>>
  THEN LET k == CHOOSE i \in 1..Len(es) :
                  /\ es[i][2] = <<ch>>
                  /\ \A j \in 1..Len(es) : es[j][2] = <<ch>> => i <= j
       IN Str(<<es[k][1]>>)
  ELSE Undefined

\* reverseMap[char] after the reduce: the key of the last entry whose value is
\* the one-character string char, or undefined
ReverseLookup(es, ch) ==
  IF \E i \in 1..Len(es) : es[i][2] = <<ch>>
  THEN LET k == CHOOSE i \in 1..Len(es) :
                  /\ es[i][2] = <<ch>>
                  /\ \A j \in 1..Len(es) : es[j][2] = <<ch>> => j <= i
       IN Str(<<es[k][1]>>)
  ELSE Undefined

\* variant of reverseCustomMapping: the mapping is applied as it is, the
\* inverse is never built
reverseCustomMappingForward(text, mapping) == customMapping(text, mapping)

reverseCustomMapping(text, mapping) ==
  LET es == ObjectEntries(mapping)
  IN Join([i \in 1..Len(text) |->
             LET m == ReverseLookup(es, text[i])
             IN IF Truthy(m) THEN m.chars ELSE <<text[i]>>])

(***************************************************************************)
(* Custom transforms.  `new Function('text', functionCode)` runs the text  *)
(* in the global scope, so a transform can read and write the global       *)
(* object; jsGlobal is the property globalThis.flip (absent = FALSE).      *)
(* The model knows these transform sources:                                *)
(***************************************************************************)
FnEmpty == ""
FnReverse == "return text.split('').reverse().join('')"
FnBlank == "return ''"
FnThrow == "throw new Error('boom')"
FnSyntax == "return ("
FnFlip == "globalThis.flip = !globalThis.flip; return globalThis.flip ? text.split('').reverse().join('') : text"

\* new Function('text', code)(text) in global state g
RunFunction(code, text, g) ==
  CASE code = FnEmpty -> [threw |-> FALSE, val |-> Undefined, g |-> g]
    [] code = FnReverse -> [threw |-> FALSE, val |-> Str(Reverse(text)), g |-> g]
    [] code = FnBlank -> [threw |-> FALSE, val |-> Str(<<>>), g |-> g]
    [] code = FnThrow -> [threw |-> TRUE, error |-> "Error", g |-> g]
    [] code = FnSyntax -> [threw |-> TRUE, error |-> "SyntaxError", g |-> g]
    [] code = FnFlip ->
         [threw |-> FALSE, g |-> ~g,
          val |-> IF ~g THEN Str(Reverse(text)) ELSE Str(text)]

\* returns [val, g]: the string result and the global state left behind
customFunction(text, functionCode, g) ==
  LET r == RunFunction(functionCode, text, g)
  IN IF r.threw
     THEN [val |-> text, g |-> r.g]
     ELSE [val |-> IF Truthy(r.val) THEN r.val.chars ELSE text, g |-> r.g]

\* variant of reverseCustomFunction: the transform is run again, as if it
\* were its own inverse
reverseCustomFunctionApplies(text, functionCode) ==
  customFunction(text, functionCode, FALSE).val

reverseCustomFunction(text, functionCode) == text

(***************************************************************************)
(* Formula descriptors.  A formula is undefined, null or an object         *)
(* [id, name, algorithm, parameters]; id, name and algorithm are kept as   *)
(* text ("" is the empty string).  The parameters bag is an object with    *)
(* the three recognised keys (each possibly undefined), or it is           *)
(* undefined, null or a primitive.                                         *)
(***************************************************************************)
Bag(shiftValue, mapping, fn) ==
  [type |-> "object", shiftValue |-> shiftValue, customMapping |-> mapping,
   customFunction |-> fn]

FormulaObj(id, name, algorithm, parameters) ==
  [type |-> "object", id |-> id, name |-> name, algorithm |-> algorithm,
   parameters |-> parameters]

\* reading formula.parameters.<key> throws a TypeError on undefined and null
ParamThrows(f) == f.parameters.type \in {"undefined", "null"}

\* formula.parameters.<key> when the read does not throw
Param(f, key) ==
  IF f.parameters.type = "object" THEN f.parameters[key] ELSE Undefined

\* variant of shiftOrZero: an absent shift value defaults to 1
shiftOrOne(f) ==
  LET v == Param(f, "shiftValue") IN IF Truthy(v) THEN v.num ELSE 1

\* formula.parameters.shiftValue || 0
shiftOrZero(f) ==
  LET v == Param(f, "shiftValue") IN IF Truthy(v) THEN v.num ELSE 0

\* formula.parameters.customMapping || {}
mappingOrEmpty(f) ==
  LET v == Param(f, "customMapping") IN IF Truthy(v) THEN v ELSE MapObj(<<>>)

\* formula.parameters.customFunction || ''
functionOrEmpty(f) ==
  LET v == Param(f, "customFunction") IN IF Truthy(v) THEN v.text ELSE ""

ParamAlgorithms == {"caesar", "position_shift", "custom_mapping", "custom"}

(***************************************************************************)
(* encode and decode.  encodeSwitch and decodeSwitch are the bodies of the *)
(* try blocks; encode threads the global state its custom transform may    *)
(* touch.                                                                  *)
(***************************************************************************)
\* variant of encodeSwitch: the position_shift case calls caesarCipher
encodeSwitchShiftDispatch(v, f, g) ==
  IF f.algorithm = "digit_reversal"
  THEN [threw |-> FALSE, val |-> Str(digitReversal(v.chars)), g |-> g]
  ELSE IF f.algorithm \notin ParamAlgorithms
  THEN [threw |-> TRUE, error |-> "Error: Unknown algorithm", g |-> g]
  ELSE IF ParamThrows(f)
  THEN [threw |-> TRUE, error |-> "TypeError", g |-> g]
  ELSE CASE f.algorithm \in {"caesar", "position_shift"} ->
              [threw |-> FALSE, val |-> Str(caesarCipher(v.chars, shiftOrZero(f))), g |-> g]
         [] f.algorithm = "custom_mapping" ->
              [threw |-> FALSE, val |-> Str(customMapping(v.chars, mappingOrEmpty(f))), g |-> g]
         [] f.algorithm = "custom" ->
              LET r == customFunction(v.chars, functionOrEmpty(f), g)
              IN [threw |-> FALSE, val |-> Str(r.val), g |-> r.g]

encodeSwitch(v, f, g) ==
  IF f.algorithm = "digit_reversal"
  THEN [threw |-> FALSE, val |-> Str(digitReversal(v.chars)), g |-> g]
  ELSE IF f.algorithm \notin ParamAlgorithms
  THEN [threw |-> TRUE, error |-> "Error: Unknown algorithm", g |-> g]
  ELSE IF ParamThrows(f)
  THEN [threw |-> TRUE, error |-> "TypeError", g |-> g]
  ELSE CASE f.algorithm = "caesar" ->
              [threw |-> FALSE, val |-> Str(caesarCipher(v.chars, shiftOrZero(f))), g |-> g]
         [] f.algorithm = "position_shift" ->
              [threw |-> FALSE, val |-> Str(positionShift(v.chars, shiftOrZero(f))), g |-> g]
         [] f.algorithm = "custom_mapping" ->
              [threw |-> FALSE, val |-> Str(customMapping(v.chars, mappingOrEmpty(f))), g |-> g]
         [] f.algorithm = "custom" ->
              LET r == customFunction(v.chars, functionOrEmpty(f), g)
              IN [threw |-> FALSE, val |-> Str(r.val), g |-> r.g]

\* variant of encode: the catch block returns the empty string
encodeCatchEmpty(v, f, g) ==
  IF ~Truthy(v) \/ ~Truthy(f)
  THEN [threw |-> FALSE, val |-> v, g |-> g]
  ELSE LET r == encodeSwitch(v, f, g)
       IN IF r.threw THEN [threw |-> FALSE, val |-> Str(<<>>), g |-> r.g] ELSE r

\* variant of encode: the guard returns the empty string for a missing input
encodeGuardEmpty(v, f, g) ==
  IF ~Truthy(v) \/ ~Truthy(f)
  THEN [threw |-> FALSE, val |-> Str(<<>>), g |-> g]
  ELSE LET r == encodeSwitch(v, f, g)
       IN IF r.threw THEN [threw |-> FALSE, val |-> v, g |-> r.g] ELSE r

encode(v, f, g) ==
  IF ~Truthy(v) \/ ~Truthy(f)
  THEN [threw |-> FALSE, val |-> v, g |-> g]
  ELSE LET r == encodeSwitch(v, f, g)
       IN IF r.threw THEN [threw |-> FALSE, val |-> v, g |-> r.g] ELSE r

decodeSwitch(v, f) ==
  IF f.algorithm = "digit_reversal"
  THEN Return(Str(digitReversal(v.chars)))
  ELSE IF f.algorithm \notin ParamAlgorithms
  THEN Throw("Error: Unknown algorithm")
  ELSE IF ParamThrows(f)
  THEN Throw("TypeError")
  ELSE CASE f.algorithm = "caesar" ->
              Return(Str(caesarCipher(v.chars, -shiftOrZero(f))))
         [] f.algorithm = "position_shift" ->
              Return(Str(positionShift(v.chars, -shiftOrZero(f))))
         [] f.algorithm = "custom_mapping" ->
              Return(Str(reverseCustomMapping(v.chars, mappingOrEmpty(f))))
         [] f.algorithm = "custom" ->
              Return(Str(reverseCustomFunction(v.chars, functionOrEmpty(f))))

decode(v, f) ==
  IF ~Truthy(v) \/ ~Truthy(f)
  THEN Return(v)
  ELSE LET r == decodeSwitch(v, f)
       IN IF r.threw THEN Return(v) ELSE r

(***************************************************************************)
(* validateFormula has no try block: a property read on undefined or null  *)
(* is a TypeError that reaches the caller.                                 *)
(***************************************************************************)
\* variant of parameterErrors: the shift value is tested against null instead
\* of by its type, so an undefined shift value passes
parameterErrorsNullCheck(f) ==
  CASE f.algorithm = "caesar" ->
         IF Param(f, "shiftValue").type = "null"
         THEN <<"Caesar cipher requires a numeric shift value">> ELSE <<>>
    [] f.algorithm = "position_shift" ->
         IF Param(f, "shiftValue").type = "null"
         THEN <<"Position shift requires a numeric shift value">> ELSE <<>>
    [] f.algorithm = "custom_mapping" ->
         IF \/ ~Truthy(Param(f, "customMapping"))
            \/ Len(Param(f, "customMapping").entries) = 0
         THEN <<"Custom mapping requires at least one character mapping">> ELSE <<>>
    [] f.algorithm = "custom" ->
         IF ~Truthy(Param(f, "customFunction"))
         THEN <<"Custom algorithm requires function code">> ELSE <<>>
    [] OTHER -> <<>>

parameterErrors(f) ==
  CASE f.algorithm = "caesar" ->
         IF Param(f, "shiftValue").type # "number"
         THEN <<"Caesar cipher requires a numeric shift value">> ELSE <<>>
    [] f.algorithm = "position_shift" ->
         IF Param(f, "shiftValue").type # "number"
         THEN <<"Position shift requires a numeric shift value">> ELSE <<>>
    [] f.algorithm = "custom_mapping" ->
         IF \/ ~Truthy(Param(f, "customMapping"))
            \/ Len(Param(f, "customMapping").entries) = 0
         THEN <<"Custom mapping requires at least one character mapping">> ELSE <<>>
    [] f.algorithm = "custom" ->
         IF ~Truthy(Param(f, "customFunction"))
         THEN <<"Custom algorithm requires function code">> ELSE <<>>
    [] OTHER -> <<>>

\* variant of validateFormula: it stops at the first error
validateFormulaFirstError(f) ==
  IF f.type \in {"undefined", "null"}
  THEN Throw("TypeError")
  ELSE IF f.algorithm \in ParamAlgorithms /\ ParamThrows(f)
  THEN Throw("TypeError")
  ELSE LET errors ==
             (IF f.id = "" THEN <<"Formula ID is required">> ELSE <<>>)
             \o (IF f.name = "" THEN <<"Formula name is required">> ELSE <<>>)
             \o (IF f.algorithm = "" THEN <<"Algorithm is required">> ELSE <<>>)
             \o parameterErrors(f)
       IN Return([isValid |-> Len(errors) = 0, errors |-> IF errors = <<>> THEN <<>> ELSE <<Head(errors)>>])

validateFormula(f) ==
  IF f.type \in {"undefined", "null"}
  THEN Throw("TypeError")
  ELSE IF f.algorithm \in ParamAlgorithms /\ ParamThrows(f)
  THEN Throw("TypeError")
  ELSE LET errors ==
             (IF f.id = "" THEN <<"Formula ID is required">> ELSE <<>>)
             \o (IF f.name = "" THEN <<"Formula name is required">> ELSE <<>>)
             \o (IF f.algorithm = "" THEN <<"Algorithm is required">> ELSE <<>>)
             \o parameterErrors(f)
       IN Return([isValid |-> Len(errors) = 0, errors |-> errors])

\* the default of testFormula's second parameter: 'ABC123XYZ'
Probe == <<Code.A, Code.B, Code.C, Code.d1, Code.d2, Code.d3, Code.X, Code.Y, Code.Z>>

\* variant of testFormula: isReversible compares the encoded value
testFormulaComparesEncoded(f, sample, g) ==
  LET testValue == IF sample.type = "undefined" THEN Str(Probe) ELSE sample
      encoded == encode(testValue, f, g)
      decoded == decode(encoded.val, f)
  IN [val |-> [original |-> testValue, encoded |-> encoded.val,
               decoded |-> decoded.val, isReversible |-> testValue = encoded.val],
      g |-> encoded.g]

\* returns [val, g]: the report and the global state left behind
testFormula(f, sample, g) ==
  LET testValue == IF sample.type = "undefined" THEN Str(Probe) ELSE sample
      encoded == encode(testValue, f, g)
      decoded == decode(encoded.val, f)
  IN [val |-> [original |-> testValue, encoded |-> encoded.val,
               decoded |-> decoded.val, isReversible |-> testValue = decoded.val],
      g |-> encoded.g]

(***************************************************************************)
(* The inputs a caller may hold.                                           *)
(***************************************************************************)
Alphabet == {Code.A, Code.a, Code.b, Code.c, Code.d0, Code.dash}

Strings == UNION {[1..n -> Alphabet] : n \in 0..MaxLen}

\* the strings of the worked examples, and "z59" (a lower-case letter and
\* digits that wrap under the built-in shifts)
Samples ==
  {Probe,
   <<122, Code.d5, Code.d9>>,
   <<Code.A, Code.B, Code.C, Code.D, Code.E>>,
   <<Code.C, Code.D, Code.E, Code.A, Code.B>>,
   <<Code.A, Code.B, Code.dash, Code.d1, Code.d2>>,
   <<Code.c, Code.d9, Code.Z>>}

Values == {Str(s) : s \in Strings \cup Samples} \cup {Undefined, Null}

Shifts == (-MaxShift)..MaxShift

Mappings ==
  {<<>>,
   <<<<Code.a, <<Code.b>>>>>>,
   <<<<Code.a, <<Code.b>>>>, <<Code.c, <<Code.b>>>>>>,
   <<<<Code.a, <<Code.b>>>>, <<Code.b, <<Code.a>>>>>>,
   <<<<Code.a, <<Code.b>>>>, <<Code.d0, <<Code.b>>>>>>,
   <<<<Code.a, <<>>>>>>}

Functions == {FnEmpty, FnReverse, FnBlank, FnThrow, FnSyntax, FnFlip}

Algorithms ==
  {"", "caesar", "digit_reversal", "position_shift", "custom_mapping", "custom", "rot13"}

NoParams == Bag(Undefined, Undefined, Undefined)

\* bags every algorithm and every id and name is combined with
CommonBags ==
  {Undefined, Null, Num(7), NoParams,
   Bag(Num(3), Undefined, Undefined),
   Bag(Undefined, MapObj(<<<<Code.a, <<Code.b>>>>>>), Undefined),
   Bag(Undefined, Undefined, Src(FnReverse))}

\* variant of builtInFormulas: the first formula shifts by 13
builtInFormulasShift13 ==
  <<FormulaObj("caesar_shift_3", "Caesar Cipher (Shift by 3)", "caesar",
               Bag(Num(13), Undefined, Undefined)),
    FormulaObj("caesar_shift_5", "Caesar Cipher (Shift by 5)", "caesar",
               Bag(Num(5), Undefined, Undefined)),
    FormulaObj("digit_reversal", "Digit Reversal", "digit_reversal", NoParams),
    FormulaObj("position_shift_2", "Position Shift (2 places)", "position_shift",
               Bag(Num(2), Undefined, Undefined))>>

\* the list initializeBuiltInFormulas installs (createdAt and description are
\* read by no operation; the digit_reversal bag { reverseOrder: true } holds
\* none of the keys the engine reads)
builtInFormulas ==
  <<FormulaObj("caesar_shift_3", "Caesar Cipher (Shift by 3)", "caesar",
               Bag(Num(3), Undefined, Undefined)),
    FormulaObj("caesar_shift_5", "Caesar Cipher (Shift by 5)", "caesar",
               Bag(Num(5), Undefined, Undefined)),
    FormulaObj("digit_reversal", "Digit Reversal", "digit_reversal", NoParams),
    FormulaObj("position_shift_2", "Position Shift (2 places)", "position_shift",
               Bag(Num(2), Undefined, Undefined))>>

Formulas ==
  {Undefined, Null}
  \cup {builtInFormulas[i] : i \in 1..Len(builtInFormulas)}
  \cup {FormulaObj(i, n, a, b) :
          i \in {"", "f1"}, n \in {"", "Formula 1"}, a \in Algorithms, b \in CommonBags}
  \cup {FormulaObj("f1", "Formula 1", a, Bag(Num(s), Undefined, Undefined)) :
          a \in {"caesar", "position_shift"}, s \in Shifts}
  \cup {FormulaObj("f1", "Formula 1", "custom_mapping", Bag(Undefined, MapObj(m), Undefined)) :
          m \in Mappings}
  \cup {FormulaObj("f1", "Formula 1", "custom", Bag(Undefined, Undefined, Src(c))) :
          c \in Functions}

(***************************************************************************)
(* The state machine: a caller holds a value and a formula descriptor and  *)
(* calls the four operations in any order; each call runs to completion    *)
(* (JavaScript is single-threaded) and `last` keeps its outcome.           *)
(***************************************************************************)
Init ==
  /\ value \in Values
  /\ formula \in Formulas
  /\ jsGlobal = FALSE
  /\ last = [op |-> "none"]
  /\ ConfigIdle
  /\ LoginIdle
  /\ AppIdle

Encode ==
  LET r == encode(value, formula, jsGlobal)
  IN /\ last' = [op |-> "encode", out |-> Outcome(r)]
     /\ jsGlobal' = r.g
     /\ UNCHANGED <<value, formula, configVars, loginVars, appVars>>

Decode ==
  /\ last' = [op |-> "decode", out |-> decode(value, formula)]
  /\ UNCHANGED <<value, formula, jsGlobal, configVars, loginVars, appVars>>

ValidateFormula ==
  /\ last' = [op |-> "validateFormula", out |-> validateFormula(formula)]
  /\ UNCHANGED <<value, formula, jsGlobal, configVars, loginVars, appVars>>

TestFormula ==
  LET r == testFormula(formula, value, jsGlobal)
  IN /\ last' = [op |-> "testFormula", out |-> Return(r.val)]
     /\ jsGlobal' = r.g
     /\ UNCHANGED <<value, formula, configVars, loginVars, appVars>>

Next == Encode \/ Decode \/ ValidateFormula \/ TestFormula

Spec == Init /\ [][Next]_vars

(***************************************************************************)
(* Properties.                                                             *)
(***************************************************************************)
KnownAlgorithms ==
  {"caesar", "digit_reversal", "position_shift", "custom_mapping", "custom"}

HasAlgorithm(a) == formula.type = "object" /\ formula.algorithm = a

\* the formula carries a parameters object with a numeric shiftValue
NumericShift ==
  /\ formula.parameters.type = "object"
  /\ formula.parameters.shiftValue.type = "number"

ShiftIs(n) == NumericShift /\ formula.parameters.shiftValue.num = n

Tested == last.op = "testFormula"

Text(v) == v.chars

\* C1: for every caesar formula with an integer shiftValue and every string
\* x, decode(encode(x, f), f) = x.
C1_CaesarRoundTrip ==
  (Tested /\ HasAlgorithm("caesar") /\ NumericShift /\ IsString(value))
    => last.out.val.decoded = value

\* C2: for a digit_reversal formula encode and decode are the same transform T
\* and T(T(x)) = x, so decode(encode(x, f), f) = x for every string x.
C2_DigitReversalInvolution ==
  (HasAlgorithm("digit_reversal") /\ IsString(value)) =>
    /\ last.op = "encode" => last.out = decode(value, formula)
    /\ last.op = "decode" => last.out = Outcome(encode(value, formula, jsGlobal))
    /\ Tested => /\ last.out.val.decoded = value
                 /\ last.out.val.isReversible

C2_Witness ==
  /\ Tested /\ HasAlgorithm("digit_reversal")
  /\ value = Str(<<Code.A, Code.B, Code.dash, Code.d1, Code.d2>>)
  /\ last.out.val.encoded = Str(<<Code.d2, Code.d1, Code.dash, Code.B, Code.A>>)
  /\ last.out.val.decoded = value

\* C3: for every position_shift formula, whatever its shiftValue (negative,
\* larger than the string), and every string x, decode(encode(x, f), f) = x.
C3_PositionShiftRoundTrip ==
  (Tested /\ HasAlgorithm("position_shift") /\ IsString(value)) =>
    /\ last.out.val.decoded = value
    /\ last.out.val.isReversible

C3_Witness ==
  /\ Tested /\ HasAlgorithm("position_shift") /\ NumericShift
  /\ IsString(value)
  /\ formula.parameters.shiftValue.num < -Len(Text(value))
  /\ Len(Text(value)) >= 3
  /\ last.out.val.encoded # value
  /\ last.out.val.decoded = value

C5_ValidateTotal ==
  last.op = "validateFormula" =>
    /\ ~last.out.threw
    /\ last.out.val.isValid = (Len(last.out.val.errors) = 0)

\* C6: encode and decode return their input unchanged when it is the empty
\* string or absent, or when the formula is absent.
C6_EmptyOrAbsent ==
  ((~Truthy(value) \/ ~Truthy(formula)) /\ last.op \in {"encode", "decode"})
    => last.out = Return(value)

C6_Witness ==
  /\ last.op = "encode"
  /\ formula = Undefined
  /\ Truthy(value)
  /\ last.out = Return(value)

\* C7: testFormula(formula, sample) reports original = sample (the probe
\* 'ABC123XYZ' when no sample is given), encoded = encode(original, formula),
\* decoded = decode(encoded, formula) and isReversible = (decoded = original).
C7_TestFormulaReport ==
  [][last'.op = "testFormula" =>
       LET original == IF value = Undefined THEN Str(Probe) ELSE value
           encoded == encode(original, formula, jsGlobal).val
           decoded == decode(encoded, formula).val
       IN last'.out = Return([original |-> original, encoded |-> encoded,
                              decoded |-> decoded,
                              isReversible |-> (decoded = original)])]_vars

C7_Witness ==
  /\ Tested /\ value = Undefined
  /\ HasAlgorithm("caesar") /\ ShiftIs(3)
  /\ last.out.val.original = Str(Probe)
  /\ last.out.val.encoded = Str(<<Code.D, Code.E, Code.F, Code.d4, Code.d5, Code.d6,
                                  Code.A, Code.B, Code.C>>)
  /\ last.out.val.decoded = Str(Probe)
  /\ last.out.val.isReversible

\* C8: every call's result is the result of the same call run in isolation
\* (in a fresh global state: it depends on the arguments alone), and no call
\* modifies the formula descriptor it is given.
C8_Stateless ==
  [][/\ formula' = formula
     /\ last'.op = "encode" => last'.out = Outcome(encode(value, formula, FALSE))
     /\ last'.op = "decode" => last'.out = decode(value, formula)
     /\ last'.op = "validateFormula" => last'.out = validateFormula(formula)
     /\ last'.op = "testFormula" =>
          last'.out = Return(testFormula(formula, value, FALSE).val)]_vars

\* C9 as stated: encode("ABC123XYZ", caesar with shiftValue 3) = "DEF456CAB".
C9_CaesarExampleCAB ==
  (last.op = "encode" /\ HasAlgorithm("caesar") /\ ShiftIs(3) /\ value = Str(Probe))
    => last.out = Return(Str(<<Code.D, Code.E, Code.F, Code.d4, Code.d5, Code.d6,
                               Code.C, Code.A, Code.B>>))

\* C9, amended: encode("ABC123XYZ", caesar with shiftValue 3) = "DEF456ABC".
C9_CaesarExample ==
  (last.op = "encode" /\ HasAlgorithm("caesar") /\ ShiftIs(3) /\ value = Str(Probe))
    => last.out = Return(Str(<<Code.D, Code.E, Code.F, Code.d4, Code.d5, Code.d6,
                               Code.A, Code.B, Code.C>>))

C9_Witness ==
  /\ last.op = "encode" /\ HasAlgorithm("caesar") /\ ShiftIs(3)
  /\ value = Str(Probe)
  /\ Text(last.out.val)[7] = Code.A

ValidatorExample == FormulaObj("", "", "caesar", NoParams)

\* C10 as stated: validateFormula of {id:'', name:'', algorithm:'caesar',
\* parameters:{}} is invalid with at least 4 errors.
C10_ValidatorExampleFour ==
  (last.op = "validateFormula" /\ formula = ValidatorExample) =>
    /\ ~last.out.threw
    /\ ~last.out.val.isValid
    /\ Len(last.out.val.errors) >= 4

\* C10, amended: it is invalid with exactly 3 errors: the id, the name and the
\* shift value.
C10_ValidatorExample ==
  (last.op = "validateFormula" /\ formula = ValidatorExample) =>
    /\ ~last.out.threw
    /\ ~last.out.val.isValid
    /\ last.out.val.errors = <<"Formula ID is required", "Formula name is required",
                               "Caesar cipher requires a numeric shift value">>

C10_Witness ==
  /\ last.op = "validateFormula" /\ formula = ValidatorExample
  /\ ~last.out.threw
  /\ Len(last.out.val.errors) = 3

Validated == last.op = "validateFormula"

\* C11: validateFormula reports an error for every formula whose algorithm is
\* a non-empty tag outside the closed enumeration, also when its id and name
\* are non-empty.
C11_UnknownAlgorithmRejected ==
  ( /\ Validated /\ formula.type = "object"
    /\ formula.algorithm # "" /\ formula.algorithm \notin KnownAlgorithms )
    => /\ ~last.out.threw
       /\ ~last.out.val.isValid
       /\ Len(last.out.val.errors) >= 1

\* the validation rules of the spec's table, by the parameter each one names
RuleNames == {"id", "name", "algorithm", "shiftValue", "customMapping", "customFunction"}

RuleMessage(rule, f) ==
  CASE rule = "id" -> "Formula ID is required"
    [] rule = "name" -> "Formula name is required"
    [] rule = "algorithm" -> "Algorithm is required"
    [] rule = "shiftValue" ->
         IF f.algorithm = "caesar"
         THEN "Caesar cipher requires a numeric shift value"
         ELSE "Position shift requires a numeric shift value"
    [] rule = "customMapping" -> "Custom mapping requires at least one character mapping"
    [] rule = "customFunction" -> "Custom algorithm requires function code"

RuleViolated(rule, f) ==
  LET bag == f.parameters
      has(key) == bag.type = "object" /\ bag[key].type # "undefined"
  IN CASE rule = "id" -> f.id = ""
       [] rule = "name" -> f.name = ""
       [] rule = "algorithm" -> f.algorithm = ""
       [] rule = "shiftValue" ->
            /\ f.algorithm \in {"caesar", "position_shift"}
            /\ ~(has("shiftValue") /\ bag.shiftValue.type = "number")
       [] rule = "customMapping" ->
            /\ f.algorithm = "custom_mapping"
            /\ ~(has("customMapping") /\ bag.customMapping.entries # <<>>)
       [] rule = "customFunction" ->
            /\ f.algorithm = "custom"
            /\ ~(has("customFunction") /\ bag.customFunction.text # "")

Occurrences(seq, x) == Cardinality({i \in 1..Len(seq) : seq[i] = x})

\* C12: for a formula whose algorithm is empty or in the enumeration and whose
\* parameters bag is present, errors holds exactly one entry per violated rule,
\* every violated rule is reported, and isValid is true exactly when errors is
\* empty.
C12_OneErrorPerViolatedRule ==
  ( /\ Validated /\ formula.type = "object"
    /\ formula.algorithm \in KnownAlgorithms \cup {""}
    /\ formula.parameters.type \notin {"undefined", "null"} )
    => /\ ~last.out.threw
       /\ \A rule \in RuleNames :
            Occurrences(last.out.val.errors, RuleMessage(rule, formula))
              = IF RuleViolated(rule, formula) THEN 1 ELSE 0
       /\ Len(last.out.val.errors)
            = Cardinality({rule \in RuleNames : RuleViolated(rule, formula)})
       /\ last.out.val.isValid = (last.out.val.errors = <<>>)

C12_Witness ==
  /\ Validated
  /\ formula = FormulaObj("", "Formula 1", "custom_mapping", NoParams)
  /\ last.out.val.errors = <<"Formula ID is required",
                             "Custom mapping requires at least one character mapping">>
  /\ ~last.out.val.isValid

\* the reference cipher: the same case's letter at offset (index + s) mod 26,
\* the digit (d + s) mod 10, any other character itself
CaesarReference(ch, s) ==
  IF IsUpper(ch) THEN 65 + ((ch - 65 + s) % 26)
  ELSE IF IsLower(ch) THEN 97 + ((ch - 97 + s) % 26)
  ELSE IF IsDigit(ch) THEN 48 + ((ch - 48 + s) % 10)
  ELSE ch

\* C13: for every integer shiftValue s and every character, encode shifts a
\* letter within its case by s mod 26 and a digit by s mod 10 and keeps any
\* other character; decode does the same with -s.
C13_CaesarReference ==
  (HasAlgorithm("caesar") /\ NumericShift /\ IsString(value) /\ Truthy(value)) =>
    LET s == formula.parameters.shiftValue.num
    IN /\ last.op = "encode" =>
            /\ ~last.out.threw
            /\ Text(last.out.val) =
                 [i \in 1..Len(Text(value)) |-> CaesarReference(Text(value)[i], s)]
       /\ last.op = "decode" =>
            /\ ~last.out.threw
            /\ Text(last.out.val) =
                 [i \in 1..Len(Text(value)) |-> CaesarReference(Text(value)[i], -s)]

\* C14: with a caesar formula whose shiftValue is 0, encode(x, f) = x for
\* every string x.
C14_CaesarIdentity ==
  (last.op = "encode" /\ HasAlgorithm("caesar") /\ ShiftIs(0) /\ IsString(value))
    => last.out = Return(value)

C14_Witness ==
  /\ last.op = "encode" /\ HasAlgorithm("caesar") /\ ShiftIs(0)
  /\ value = Str(Probe)
  /\ last.out = Return(Str(Probe))

\* the left circular rotation of x by s places, 0 <= s < Len(x)
RotateLeft(x, s) == [i \in 1..Len(x) |-> x[((i - 1 + s) % Len(x)) + 1]]

ABCDE == <<Code.A, Code.B, Code.C, Code.D, Code.E>>
CDEAB == <<Code.C, Code.D, Code.E, Code.A, Code.B>>

\* C15: for a string of length L >= 2 and every integer shiftValue,
\* position_shift encode is the left rotation by shiftValue mod L (the result
\* has the characters and the length of the input); encode("ABCDE", 2) is
\* "CDEAB" and decode("CDEAB", 2) is "ABCDE".
C15_PositionShiftRotation ==
  ( /\ HasAlgorithm("position_shift") /\ NumericShift
    /\ IsString(value) /\ Len(Text(value)) >= 2 ) =>
    LET x == Text(value)
        s == formula.parameters.shiftValue.num % Len(x)
    IN /\ last.op = "encode" =>
            /\ last.out = Return(Str(RotateLeft(x, s)))
            /\ Text(last.out.val) = SubSeq(x, s + 1, Len(x)) \o SubSeq(x, 1, s)
            /\ Len(Text(last.out.val)) = Len(x)
       /\ (last.op = "encode" /\ x = ABCDE /\ ShiftIs(2)) => last.out = Return(Str(CDEAB))
       /\ (last.op = "decode" /\ x = CDEAB /\ ShiftIs(2)) => last.out = Return(Str(ABCDE))

C15_Witness ==
  /\ last.op = "encode" /\ HasAlgorithm("position_shift") /\ ShiftIs(2)
  /\ value = Str(ABCDE)
  /\ last.out = Return(Str(CDEAB))

\* C16: for a string of length 0 or 1 and every integer shiftValue,
\* position_shift encode and decode return the input unchanged.
C16_PositionShiftShortString ==
  ( /\ HasAlgorithm("position_shift") /\ NumericShift
    /\ IsString(value) /\ Len(Text(value)) <= 1
    /\ last.op \in {"encode", "decode"} )
    => last.out = Return(value)

C16_Witness ==
  /\ last.op = "encode" /\ HasAlgorithm("position_shift") /\ ShiftIs(5)
  /\ IsString(value) /\ Len(Text(value)) = 1
  /\ last.out = Return(value)

ABdash12 == <<Code.A, Code.B, Code.dash, Code.d1, Code.d2>>

\* C17: the output of digit_reversal has the length of the input, keeps every
\* character that is no letter or digit at its position, and its letters and
\* digits are those of the input in reverse order (a '0' included); "AB-12"
\* becomes "21-BA".
C17_DigitReversalReference ==
  ( /\ HasAlgorithm("digit_reversal") /\ IsString(value) /\ Truthy(value)
    /\ last.op \in {"encode", "decode"} ) =>
    LET x == Text(value)
        y == Text(last.out.val)
    IN /\ ~last.out.threw
       /\ Len(y) = Len(x)
       /\ \A i \in 1..Len(x) : ~IsAlnum(x[i]) => y[i] = x[i]
       /\ \A i \in 1..Len(x) : IsAlnum(x[i]) => IsAlnum(y[i])
       /\ SelectSeq(y, IsAlnum) = Reverse(SelectSeq(x, IsAlnum))
       /\ x = ABdash12 => y = <<Code.d2, Code.d1, Code.dash, Code.B, Code.A>>

C17_Witness ==
  /\ last.op = "encode" /\ HasAlgorithm("digit_reversal")
  /\ value = Str(ABdash12)
  /\ last.out = Return(Str(<<Code.d2, Code.d1, Code.dash, Code.B, Code.A>>))

Contains(x, ch) == \E i \in 1..Len(x) : x[i] = ch

\* the mapping {a: 'b', c: 'b'}, a inserted first
NonInjective == MapObj(<<<<Code.a, <<Code.b>>>>, <<Code.c, <<Code.b>>>>>>)

HasMapping(m) ==
  /\ HasAlgorithm("custom_mapping")
  /\ formula.parameters.type = "object"
  /\ formula.parameters.customMapping = m

\* C18 as stated: with the mapping {a:'b', c:'b'} testFormula reports
\* isReversible = false for every sample that contains 'a', 'b' or 'c'.
C18_SelfTestAnyOfABC ==
  ( /\ Tested /\ HasMapping(NonInjective) /\ IsString(last.out.val.original)
    /\ \E ch \in {Code.a, Code.b, Code.c} : Contains(Text(last.out.val.original), ch) )
    => ~last.out.val.isReversible

\* C18, amended: it reports isReversible = false for every sample that
\* contains 'a' or 'b', and true for every other sample: 'c', the key inserted
\* last, is the one the inverse map gives back for 'b'.
C18_SelfTestNonInjective ==
  (Tested /\ HasMapping(NonInjective) /\ IsString(last.out.val.original)) =>
    last.out.val.isReversible
      = ~(\E ch \in {Code.a, Code.b} : Contains(Text(last.out.val.original), ch))

C18_Witness ==
  /\ Tested /\ HasMapping(NonInjective)
  /\ value = Str(<<Code.c, Code.a>>)
  /\ last.out.val.encoded = Str(<<Code.b, Code.b>>)
  /\ last.out.val.decoded = Str(<<Code.c, Code.c>>)
  /\ ~last.out.val.isReversible

\* a non-empty mapping of single characters to single characters in which no
\* two keys share a value
InjectiveMapping(m) ==
  /\ m.type = "object"
  /\ m.entries # <<>>
  /\ \A i \in 1..Len(m.entries) : Len(m.entries[i][2]) = 1
  /\ \A i, j \in 1..Len(m.entries) :
       m.entries[i][2] = m.entries[j][2] => i = j

IsKey(m, ch) == \E i \in 1..Len(m.entries) : m.entries[i][1] = ch
IsValue(m, ch) == \E i \in 1..Len(m.entries) : m.entries[i][2] = <<ch>>

InjectiveCase ==
  /\ Tested /\ HasAlgorithm("custom_mapping")
  /\ formula.parameters.type = "object"
  /\ InjectiveMapping(formula.parameters.customMapping)
  /\ IsString(last.out.val.original)

\* C19 as stated: for every custom_mapping formula with a non-empty injective
\* mapping and every string x, decode(encode(x, f), f) = x.
C19_InjectiveRoundTripAnyString ==
  InjectiveCase => last.out.val.decoded = last.out.val.original

\* C19, amended: the same for every string x none of whose characters is a
\* value of the mapping without being a key of it.
C19_InjectiveRoundTrip ==
  ( /\ InjectiveCase
    /\ \A i \in 1..Len(Text(last.out.val.original)) :
         LET ch == Text(last.out.val.original)[i]
             m == formula.parameters.customMapping
         IN IsValue(m, ch) => IsKey(m, ch) )
    => /\ last.out.val.decoded = last.out.val.original
       /\ last.out.val.isReversible

C19_Witness ==
  /\ Tested
  /\ HasMapping(MapObj(<<<<Code.a, <<Code.b>>>>>>))
  /\ value = Str(<<Code.a, Code.c>>)
  /\ last.out.val.encoded = Str(<<Code.b, Code.c>>)
  /\ last.out.val.decoded = value

\* C20: for a formula with algorithm 'custom', whatever its customFunction,
\* decode(v, f) = v for every input v.
C20_CustomDecodeIdentity ==
  (last.op = "decode" /\ HasAlgorithm("custom")) => last.out = Return(value)

C20_Witness ==
  /\ last.op = "decode" /\ HasAlgorithm("custom")
  /\ formula.parameters.type = "object"
  /\ formula.parameters.customFunction = Src(FnReverse)
  /\ value = Str(ABCDE)
  /\ last.out = Return(value)

\* the key inserted last among the keys of m whose value is the character ch
LastInsertedKey(m, ch) ==
  LET k == CHOOSE i \in 1..Len(m.entries) :
             /\ m.entries[i][2] = <<ch>>
             /\ \A j \in 1..Len(m.entries) : m.entries[j][2] = <<ch>> => j <= i
  IN m.entries[k][1]

\* C21: custom_mapping decode replaces each character that is a value of the
\* mapping by the key inserted last among the keys with that value, for every
\* kind of key character (digit keys included), and passes every other
\* character through unchanged.
C21_LastInsertedWins ==
  ( /\ last.op = "decode" /\ HasAlgorithm("custom_mapping")
    /\ formula.parameters.type = "object"
    /\ formula.parameters.customMapping.type = "object"
    /\ IsString(value) /\ Truthy(value) ) =>
    LET m == formula.parameters.customMapping
        x == Text(value)
    IN last.out = Return(Str([i \in 1..Len(x) |->
                               IF IsValue(m, x[i]) THEN LastInsertedKey(m, x[i])
                               ELSE x[i]]))

\* the formula carries a parameters object with this transform source
HasFunction(c) ==
  /\ HasAlgorithm("custom")
  /\ formula.parameters.type = "object"
  /\ formula.parameters.customFunction = Src(c)

\* C22: for a non-empty input x and a custom formula with a non-empty
\* customFunction, encode returns the transform's result whenever the
\* transform returns a string (the empty string included), and x unchanged
\* when the transform throws or returns no value.
C22_CustomEncode ==
  (last.op = "encode" /\ IsString(value) /\ Truthy(value)) =>
    /\ HasFunction(FnReverse) => last.out = Return(Str(Reverse(Text(value))))
    /\ HasFunction(FnBlank) => last.out = Return(Str(<<>>))
    /\ HasFunction(FnThrow) => last.out = Return(value)
    /\ HasFunction(FnSyntax) => last.out = Return(value)

\* the parameters bag is an object without the parameter the algorithm reads
RequiredParameterAbsent ==
  /\ formula.type = "object"
  /\ formula.parameters.type = "object"
  /\ \/ /\ formula.algorithm \in {"caesar", "position_shift"}
        /\ formula.parameters.shiftValue = Undefined
     \/ /\ formula.algorithm = "custom_mapping"
        /\ formula.parameters.customMapping = Undefined
     \/ /\ formula.algorithm = "custom"
        /\ formula.parameters.customFunction = Undefined

\* C23: when the parameters bag is present but the parameter the algorithm
\* requires is absent, encode and decode return every string x unchanged
\* (shift 0, the empty mapping, the empty function).
C23_DefensiveDefaulting ==
  (RequiredParameterAbsent /\ IsString(value) /\ last.op \in {"encode", "decode"})
    => last.out = Return(value)

C23_Witness ==
  /\ last.op = "encode" /\ HasAlgorithm("caesar")
  /\ formula.parameters = NoParams
  /\ value = Str(ABCDE)
  /\ last.out = Return(value)

IsBuiltIn(f) == \E i \in 1..Len(builtInFormulas) : builtInFormulas[i] = f

AllAlnum(x) == \A i \in 1..Len(x) : IsAlnum(x[i])

\* C27: the built-in formulas (caesar 3, caesar 5, digit_reversal,
\* position_shift 2) have distinct ids, pass validateFormula with zero errors,
\* and round-trip every string of ASCII letters and digits, so that testFormula
\* reports isReversible = true.
C27_BuiltInFormulas ==
  /\ \A i, j \in 1..Len(builtInFormulas) :
       builtInFormulas[i].id = builtInFormulas[j].id => i = j
  /\ IsBuiltIn(formula) =>
       /\ last.op = "validateFormula" =>
            last.out = Return([isValid |-> TRUE, errors |-> <<>>])
       /\ (Tested /\ IsString(last.out.val.original)
             /\ AllAlnum(Text(last.out.val.original))) =>
            /\ last.out.val.decoded = last.out.val.original
            /\ last.out.val.isReversible

C27_Witness ==
  /\ Tested /\ formula = builtInFormulas[2]
  /\ value = Str(<<122, Code.d5, Code.d9>>)
  /\ last.out.val.encoded = Str(<<Code.e, Code.d0, Code.d4>>)
  /\ last.out.val.isReversible

(***************************************************************************)
(* The Configuration Manager (src/src/context/ConfigurationContext.tsx).   *)
(* A text field is Src(t) or undefined; a Date is its time value, and its  *)
(* JSON form is the ISO string of that time.  An item of localStorage is   *)
(* null (never set), a text JSON.parse rejects, or the JSON text of a      *)
(* value.                                                                  *)
(***************************************************************************)
\* the slice(-10) of saveConfiguration and loadSavedData
HistoryLimit == 10
\* successful saves of one run of the model
MaxSaves == 3

Date(ms) == [type |-> "date", ms |-> ms]
Iso(ms) == [type |-> "iso", ms |-> ms]
InvalidDate == [type |-> "invalid-date"]

\* JSON.stringify of a Date property (an undefined property is left out, and
\* reads as undefined after the parse; an invalid date becomes null)
DateToJSON(d) ==
  CASE d.type = "date" -> Iso(d.ms)
    [] d.type = "invalid-date" -> Null
    [] OTHER -> d

\* new Date(v)
NewDate(v) ==
  CASE v.type = "iso" -> Date(v.ms)
    [] v.type = "date" -> v
    [] v.type = "null" -> Date(0)
    [] OTHER -> InvalidDate

Unparseable == [type |-> "unparseable"]
Json(v) == [type |-> "json", val |-> v]

\* the last element of a non-empty array
Last(seq) == seq[Len(seq)]

\* array.slice(-n)
LastN(seq, n) ==
  IF Len(seq) <= n THEN seq ELSE SubSeq(seq, Len(seq) - n + 1, Len(seq))

\* array.slice(0, n)
FirstN(seq, n) == IF Len(seq) <= n THEN seq ELSE SubSeq(seq, 1, n)

\* `config_${Date.now()}_${random}` and `history_${Date.now()}`
ConfigId(t) == [type |-> "string", text |-> "config", n |-> t]
HistoryId(t) == [type |-> "string", text |-> "history", n |-> t]

\* a JavaScript array
Arr(items) == [type |-> "array", items |-> items]

Mapping(sourceColumn, destinationField) ==
  [sourceColumn |-> sourceColumn, destinationField |-> destinationField,
   shouldEncode |-> TRUE]

\* an AppConfiguration as the form hands it to saveConfiguration
Config(id, name, sourceDatabase, columnMappings) ==
  [type |-> "object", id |-> id, name |-> name,
   sourceDatabase |-> sourceDatabase,
   destinationFirestore |->
     [type |-> "object", collectionName |-> Src("txns"), customToken |-> Src("token")],
   encodingFormula |-> [type |-> "object", id |-> Src("caesar_shift_3")],
   columnMappings |-> columnMappings,
   createdAt |-> Undefined, lastModified |-> Undefined]

Database(connectionString, tableName) ==
  [type |-> "object", connectionString |-> connectionString, tableName |-> tableName]

GoodDatabase == Database(Src("mysql://host/db"), Src("tableL"))
GoodMappings == Arr(<<Mapping(Src("account_no"), Src("accountNo"))>>)

\* a new configuration: no id yet
NewConfig == Config(Undefined, Src("Nightly"), GoodDatabase, GoodMappings)

\* configurations validateConfiguration rejects
InvalidConfigs ==
  {Null,
   Config(Undefined, Src(" "), GoodDatabase, GoodMappings),
   Config(Undefined, Src("Nightly"), Undefined, GoodMappings),
   Config(Undefined, Src("Nightly"), Database(Src("mysql://host/db"), Src("")), GoodMappings),
   Config(Undefined, Src("Nightly"), GoodDatabase, Arr(<<>>)),
   Config(Undefined, Src("Nightly"), GoodDatabase, Undefined),
   Config(Undefined, Src("Nightly"), GoodDatabase,
          Arr(<<Mapping(Src("account_no"), Src(""))>>)),
   Config(Undefined, Undefined, Undefined, Arr(<<Mapping(Undefined, Src(" "))>>))}

\* String.prototype.trim on the texts of the model ("" and " " are the blank
\* ones)
Trim(v) == IF v.text = " " THEN Src("") ELSE v

\* !x?.trim()
Blank(v) == IF v.type \in {"undefined", "null"} THEN TRUE ELSE ~Truthy(Trim(v))

\* obj?.field
Opt(obj, field) == IF obj.type \in {"undefined", "null"} THEN Undefined ELSE obj[field]

RECURSIVE mappingErrors(_, _)
\* the forEach over config.columnMappings, from entry `index` on
mappingErrors(mappings, index) ==
  IF index > Len(mappings) THEN <<>>
  ELSE (IF Blank(mappings[index].sourceColumn)
        THEN <<<<"Column mapping", index, "Source column is required">>>> ELSE <<>>)
       \o (IF Blank(mappings[index].destinationField)
           THEN <<<<"Column mapping", index, "Destination field is required">>>> ELSE <<>>)
       \o mappingErrors(mappings, index + 1)

\* the ValidationResult (its warnings are read by no operation of the model)
validateConfiguration(config) ==
  IF config.type \in {"undefined", "null"}
  THEN \* config.name throws inside the try block
       [isValid |-> FALSE, errors |-> <<"Validation failed due to unexpected error">>]
  ELSE LET errors ==
             (IF Blank(config.name) THEN <<"Configuration name is required">> ELSE <<>>)
             \o (IF Blank(Opt(config.sourceDatabase, "connectionString"))
                 THEN <<"Source database connection string is required">> ELSE <<>>)
             \o (IF Blank(Opt(config.sourceDatabase, "tableName"))
                 THEN <<"Source table name is required">> ELSE <<>>)
             \o (IF Blank(Opt(config.destinationFirestore, "collectionName"))
                 THEN <<"Destination collection name is required">> ELSE <<>>)
             \o (IF Blank(Opt(config.destinationFirestore, "customToken"))
                 THEN <<"Firestore custom token is required">> ELSE <<>>)
             \o (IF ~Truthy(Opt(config.encodingFormula, "id"))
                 THEN <<"Encoding formula must be selected">> ELSE <<>>)
             \o (IF \/ config.columnMappings.type = "undefined"
                    \/ Len(config.columnMappings.items) = 0
                 THEN <<"At least one column mapping is required">> ELSE <<>>)
             \o (IF config.columnMappings.type = "undefined" THEN <<>>
                 ELSE mappingErrors(config.columnMappings.items, 1))
       IN [isValid |-> Len(errors) = 0, errors |-> errors]

\* JSON.stringify of a configuration and of a history
ConfigToJSON(c) ==
  [c EXCEPT !.createdAt = DateToJSON(@), !.lastModified = DateToJSON(@)]

EntryToJSON(e) ==
  [e EXCEPT !.timestamp = DateToJSON(@), !.configuration = ConfigToJSON(@)]

HistoryToJSON(h) == [i \in 1..Len(h) |-> EntryToJSON(h[i])]

\* the date strings of a parsed configuration and history turned into Dates
ReviveConfig(c) ==
  [c EXCEPT !.createdAt = NewDate(@), !.lastModified = NewDate(@)]

ReviveEntry(e) ==
  [e EXCEPT !.timestamp = NewDate(@), !.configuration = ReviveConfig(@)]

ReviveHistory(h) == [i \in 1..Len(h) |-> ReviveEntry(h[i])]

\* variant of updatedHistory: the first ten entries are kept
updatedHistoryHead(history, historyEntry) ==
  FirstN(Append(history, historyEntry), HistoryLimit)

\* [...configHistory, historyEntry].slice(-10)
updatedHistory(history, historyEntry) ==
  LastN(Append(history, historyEntry), HistoryLimit)

\* variant of saveConfiguration: isLoading is reset on the success path only
saveConfigurationNoFinally(config, cc, ch, ls, t) ==
  IF ~validateConfiguration(config).isValid
  THEN [threw |-> TRUE, error |-> validateConfiguration(config).errors,
        config |-> config, currentConfig |-> cc, configHistory |-> ch,
        localStorage |-> ls, isLoading |-> TRUE]
  ELSE LET stamped ==
             [config EXCEPT
                !.id = IF Truthy(@) THEN @ ELSE ConfigId(t),
                !.createdAt = IF Truthy(config.id) THEN @ ELSE Date(t),
                !.lastModified = Date(t)]
           historyEntry ==
             [id |-> HistoryId(t), configuration |-> stamped, timestamp |-> Date(t),
              changeDescription |->
                IF Truthy(cc) THEN "Configuration updated"
                ELSE "Initial configuration created"]
           history == updatedHistory(ch, historyEntry)
       IN [threw |-> FALSE, error |-> <<>>, config |-> stamped,
           currentConfig |-> stamped, configHistory |-> history,
           localStorage |->
             [ls EXCEPT !.encoder_current_config = Json(ConfigToJSON(stamped)),
                        !.encoder_config_history = Json(HistoryToJSON(history))],
           isLoading |-> FALSE]

\* saveConfiguration(config) with currentConfig cc, configHistory ch, storage
\* ls at time t: the completion, the argument object as the call leaves it,
\* and the state and storage it leaves
saveConfiguration(config, cc, ch, ls, t) ==
  IF ~validateConfiguration(config).isValid
  THEN [threw |-> TRUE, error |-> validateConfiguration(config).errors,
        config |-> config, currentConfig |-> cc, configHistory |-> ch,
        localStorage |-> ls, isLoading |-> FALSE]
  ELSE LET stamped ==
             [config EXCEPT
                !.id = IF Truthy(@) THEN @ ELSE ConfigId(t),
                !.createdAt = IF Truthy(config.id) THEN @ ELSE Date(t),
                !.lastModified = Date(t)]
           historyEntry ==
             [id |-> HistoryId(t), configuration |-> stamped, timestamp |-> Date(t),
              changeDescription |->
                IF Truthy(cc) THEN "Configuration updated"
                ELSE "Initial configuration created"]
           history == updatedHistory(ch, historyEntry)
       IN [threw |-> FALSE, error |-> <<>>, config |-> stamped,
           currentConfig |-> stamped, configHistory |-> history,
           localStorage |->
             [ls EXCEPT !.encoder_current_config = Json(ConfigToJSON(stamped)),
                        !.encoder_config_history = Json(HistoryToJSON(history))],
           isLoading |-> FALSE]

\* setSavedFormulas(builtInFormulas) and the setItem that follows
initializeBuiltInFormulas(ls) ==
  [savedFormulas |-> builtInFormulas,
   localStorage |-> [ls EXCEPT !.encoder_saved_formulas = Json(builtInFormulas)]]

\* loadSavedData with state cc, ch, sf and storage ls: a JSON.parse that
\* throws ends the try block, and the catch installs the built-in formulas
loadSavedData(cc, ch, sf, ls) ==
  LET savedConfig == ls.encoder_current_config
      savedHistory == ls.encoder_config_history
      savedFormulasData == ls.encoder_saved_formulas
      threwAtConfig == savedConfig.type = "unparseable"
      threwAtHistory == ~threwAtConfig /\ savedHistory.type = "unparseable"
      threwAtFormulas ==
        ~threwAtConfig /\ ~threwAtHistory /\ savedFormulasData.type = "unparseable"
      config == IF savedConfig.type = "json" THEN ReviveConfig(savedConfig.val) ELSE cc
      history ==
        IF ~threwAtConfig /\ savedHistory.type = "json"
        THEN LastN(ReviveHistory(savedHistory.val), HistoryLimit)
        ELSE ch
  IN IF threwAtConfig \/ threwAtHistory \/ threwAtFormulas
        \/ savedFormulasData.type = "null"
     THEN [currentConfig |-> config, configHistory |-> history]
            @@ initializeBuiltInFormulas(ls)
     ELSE [currentConfig |-> config, configHistory |-> history,
           savedFormulas |-> savedFormulasData.val, localStorage |-> ls]

(***************************************************************************)
(* What localStorage can hold when the provider mounts: nothing, or what   *)
(* earlier sessions saved (n successful saves, the formulas the user kept),*)
(* any item possibly replaced by a text that does not parse.               *)
(***************************************************************************)
\* the configuration saved at time t in an earlier session
EarlierConfig(t) ==
  [NewConfig EXCEPT !.id = ConfigId(t), !.createdAt = Date(t), !.lastModified = Date(t)]

EarlierHistory(n) ==
  [t \in 1..n |->
     [id |-> HistoryId(t), configuration |-> EarlierConfig(t), timestamp |-> Date(t),
      changeDescription |->
        IF t = 1 THEN "Initial configuration created" ELSE "Configuration updated"]]

\* a list the user saved through saveEncodingFormula and deleteEncodingFormula
UserFormulas == <<FormulaObj("f1", "Formula 1", "digit_reversal", NoParams)>>

StoredFormulas == {Unparseable, Json(<<>>), Json(UserFormulas), Json(builtInFormulas)}

\* what localStorage can hold after n successful saves
Storages(n) ==
  IF n = 0 THEN {EmptyStorage}
  ELSE {[EmptyStorage EXCEPT
           !.encoder_current_config = c,
           !.encoder_config_history = h,
           !.encoder_saved_formulas = f] :
          c \in {Null, Unparseable, Json(ConfigToJSON(EarlierConfig(n)))},
          h \in {Unparseable, Json(HistoryToJSON(EarlierHistory(n)))},
          f \in StoredFormulas}

(***************************************************************************)
(* The provider's state machine.  Mount runs the mount effect              *)
(* (loadSavedData); Unmount is the page being left, which drops the React  *)
(* state and keeps localStorage; the saves are sequential, each running to *)
(* its end and rendered before the next.                                   *)
(***************************************************************************)
ConfigInit ==
  /\ EngineIdle
  /\ LoginIdle
  /\ AppIdle
  /\ last = [op |-> "none"]
  /\ currentConfig = Null
  /\ configHistory = <<>>
  /\ savedFormulas = <<>>
  /\ isLoading = FALSE
  /\ \E n \in {0, 1, HistoryLimit} :
       /\ localStorage \in Storages(n)
       /\ saveLog = EarlierHistory(n)
  /\ now = HistoryLimit + 1
  /\ sessionLog = <<>>
  /\ mounted = FALSE

Mount ==
  /\ ~mounted
  /\ LET r == loadSavedData(currentConfig, configHistory, savedFormulas, localStorage)
     IN /\ currentConfig' = r.currentConfig
        /\ configHistory' = r.configHistory
        /\ savedFormulas' = r.savedFormulas
        /\ localStorage' = r.localStorage
        /\ sessionLog' = r.configHistory
  /\ mounted' = TRUE
  /\ last' = [op |-> "loadSavedData"]
  /\ UNCHANGED <<engineVars, loginVars, appVars, isLoading, now, saveLog>>

Unmount ==
  /\ mounted
  /\ mounted' = FALSE
  /\ currentConfig' = Null
  /\ configHistory' = <<>>
  /\ savedFormulas' = <<>>
  /\ isLoading' = FALSE
  /\ sessionLog' = <<>>
  /\ last' = [op |-> "unmount"]
  /\ UNCHANGED <<engineVars, loginVars, appVars, localStorage, now, saveLog>>

\* the configurations the form can hand over: a new one, the current one
\* again, the current one with its name blanked, or one that is invalid
ConfigInputs ==
  {NewConfig} \cup InvalidConfigs
  \cup (IF currentConfig = Null THEN {}
        ELSE {currentConfig, [currentConfig EXCEPT !.name = Src(" ")]})

SaveConfiguration ==
  /\ mounted
  /\ now < HistoryLimit + 1 + MaxSaves
  /\ \E config \in ConfigInputs :
       LET r == saveConfiguration(config, currentConfig, configHistory, localStorage, now)
       IN /\ currentConfig' = r.currentConfig
          /\ configHistory' = r.configHistory
          /\ localStorage' = r.localStorage
          /\ isLoading' = r.isLoading
          /\ now' = IF r.threw THEN now ELSE now + 1
          /\ saveLog' =
               IF r.threw THEN saveLog
               ELSE Append(saveLog, Last(r.configHistory))
          /\ sessionLog' =
               IF r.threw THEN sessionLog
               ELSE Append(sessionLog, Last(r.configHistory))
          /\ last' = [op |-> "saveConfiguration", arg |-> config,
                      config |-> r.config, threw |-> r.threw, error |-> r.error]
  /\ UNCHANGED <<engineVars, loginVars, appVars, savedFormulas, mounted>>

ConfigNext == Mount \/ Unmount \/ SaveConfiguration

ConfigSpec == ConfigInit /\ [][ConfigNext]_vars

SavedNow == last.op = "saveConfiguration" /\ ~last.threw

\* seq is the end of log
IsSuffix(seq, log) ==
  /\ Len(seq) <= Len(log)
  /\ seq = SubSeq(log, Len(log) - Len(seq) + 1, Len(log))

\* C24: configHistory and the persisted 'encoder_config_history' hold at most
\* 10 entries after any sequence of loads and saves; after sequential
\* successful saves they are the most recent successful saves in save order
\* (the last ten of the history loaded at mount and the saves made since),
\* the last entry being the configuration just saved.
C24_HistoryBounded ==
  /\ Len(configHistory) <= HistoryLimit
  /\ localStorage.encoder_config_history.type = "json" =>
       /\ Len(localStorage.encoder_config_history.val) <= HistoryLimit
       /\ IsSuffix(ReviveHistory(localStorage.encoder_config_history.val), saveLog)
  /\ IsSuffix(configHistory, saveLog)
  /\ mounted => configHistory = LastN(sessionLog, HistoryLimit)
  /\ \A i, j \in 1..Len(configHistory) :
       i < j => configHistory[i].timestamp.ms < configHistory[j].timestamp.ms
  /\ SavedNow =>
       /\ Last(configHistory).configuration = last.config
       /\ Last(configHistory).configuration = currentConfig
       /\ localStorage.encoder_config_history = Json(HistoryToJSON(configHistory))

C24_Witness ==
  /\ SavedNow
  /\ Len(configHistory) = HistoryLimit
  /\ Len(saveLog) = HistoryLimit + 2
  /\ sessionLog = saveLog
  /\ configHistory[1].timestamp = Date(3)
  /\ Last(configHistory).timestamp = Date(HistoryLimit + 2)

\* C25: saveConfiguration on a configuration validateConfiguration rejects
\* fails with an error, leaves currentConfig, configHistory and both persisted
\* entries unchanged, assigns no id or timestamp to the configuration, and
\* leaves isLoading = false.
C25_InvalidSaveRejected ==
  [][ ( /\ last'.op = "saveConfiguration"
        /\ validateConfiguration(last'.arg).errors # <<>> )
      => /\ last'.threw
         /\ currentConfig' = currentConfig
         /\ configHistory' = configHistory
         /\ localStorage'.encoder_current_config = localStorage.encoder_current_config
         /\ localStorage'.encoder_config_history = localStorage.encoder_config_history
         /\ last'.config = last'.arg
         /\ isLoading' = FALSE ]_vars

C25_Witness ==
  /\ last.op = "saveConfiguration" /\ last.threw
  /\ currentConfig # Null
  /\ last.arg = [currentConfig EXCEPT !.name = Src(" ")]
  /\ last.error = <<"Configuration name is required">>
  /\ last.config.lastModified = currentConfig.lastModified
  /\ ~isLoading

\* C26: whenever 'encoder_saved_formulas' holds a parseable formula list,
\* loadSavedData leaves that persisted list unchanged and sets savedFormulas
\* to it, whatever 'encoder_current_config' and 'encoder_config_history' hold
\* (unparseable contents included).
C26_SavedFormulasKept ==
  [][ ( /\ last'.op = "loadSavedData"
        /\ localStorage.encoder_saved_formulas.type = "json" )
      => /\ localStorage'.encoder_saved_formulas = localStorage.encoder_saved_formulas
         /\ savedFormulas' = localStorage.encoder_saved_formulas.val ]_vars

(***************************************************************************)
(* The login page (src/src/components/LoginPage.tsx).  The text fields are *)
(* strings; localStorage holds the passkey as Src(text).  The handlers are *)
(* those of the form the page shows: the login form, or the change-passkey *)
(* form when isChangingPasskey.  onLogin(true) closes the page.            *)
(***************************************************************************)
\* newPasskey.length < 6
MinPasskeyLength == 6

\* what a user may type into a field
PasskeyTexts == {"", "abc", "secret1", "hunter22"}

\* the passkey an earlier visit stored
EarlierPasskey == Src("secret1")

\* the state after the first render and the mount effect
LoginInit ==
  /\ EngineIdle
  /\ ProviderIdle
  /\ AppIdle
  /\ last = [op |-> "none"]
  /\ now = 0
  /\ localStorage \in {EmptyStorage, [EmptyStorage EXCEPT !.encoder_passkey = EarlierPasskey]}
  /\ passkey = ""
  /\ error = ""
  /\ newPasskey = ""
  /\ confirmPasskey = ""
  /\ isFirstTime = ~Truthy(localStorage.encoder_passkey)
  /\ isChangingPasskey = ~Truthy(localStorage.encoder_passkey)
  /\ loggedIn = FALSE
  /\ originalPasskey = localStorage.encoder_passkey
  /\ typedOriginal = FALSE

Typed(t) == typedOriginal \/ Src(t) = originalPasskey

LoginFrame == UNCHANGED <<engineVars, providerVars, appVars, last, now, originalPasskey>>

\* onChange of the passkey input of the login form
SetPasskey ==
  /\ ~loggedIn /\ ~isChangingPasskey
  /\ \E t \in PasskeyTexts :
       /\ passkey' = t
       /\ typedOriginal' = Typed(t)
  /\ LoginFrame
  /\ UNCHANGED <<localStorage, error, isChangingPasskey, newPasskey, confirmPasskey,
                 isFirstTime, loggedIn>>

\* onChange of the two inputs of the change-passkey form
SetNewPasskey ==
  /\ ~loggedIn /\ isChangingPasskey
  /\ \E t \in PasskeyTexts :
       /\ newPasskey' = t
       /\ typedOriginal' = Typed(t)
  /\ LoginFrame
  /\ UNCHANGED <<localStorage, passkey, error, isChangingPasskey, confirmPasskey,
                 isFirstTime, loggedIn>>

SetConfirmPasskey ==
  /\ ~loggedIn /\ isChangingPasskey
  /\ \E t \in PasskeyTexts :
       /\ confirmPasskey' = t
       /\ typedOriginal' = Typed(t)
  /\ LoginFrame
  /\ UNCHANGED <<localStorage, passkey, error, isChangingPasskey, newPasskey,
                 isFirstTime, loggedIn>>

handleLogin ==
  /\ ~loggedIn /\ ~isChangingPasskey
  /\ IF Src(passkey) = localStorage.encoder_passkey
     THEN /\ loggedIn' = TRUE
          /\ error' = ""
          /\ UNCHANGED passkey
     ELSE /\ error' = "Invalid passkey. Please try again."
          /\ passkey' = ""
          /\ UNCHANGED loggedIn
  /\ LoginFrame
  /\ UNCHANGED <<localStorage, isChangingPasskey, newPasskey, confirmPasskey,
                 isFirstTime, typedOriginal>>

handlePasskeyChange ==
  /\ ~loggedIn /\ isChangingPasskey
  /\ IF Len(newPasskey) < MinPasskeyLength
     THEN /\ error' = "Passkey must be at least 6 characters long."
          /\ UNCHANGED <<localStorage, newPasskey, confirmPasskey, isChangingPasskey,
                         isFirstTime, loggedIn>>
     ELSE IF newPasskey # confirmPasskey
     THEN /\ error' = "Passkeys do not match. Please try again."
          /\ UNCHANGED <<localStorage, newPasskey, confirmPasskey, isChangingPasskey,
                         isFirstTime, loggedIn>>
     ELSE /\ localStorage' = [localStorage EXCEPT
                                !.encoder_passkey = Src(newPasskey),
                                !.encoder_passkey_changed = Iso(now)]
          /\ newPasskey' = ""
          /\ confirmPasskey' = ""
          /\ isChangingPasskey' = FALSE
          /\ isFirstTime' = FALSE
          /\ IF isFirstTime
             THEN loggedIn' = TRUE /\ error' = ""
             ELSE /\ error' = "Passkey updated successfully. Please login with your new passkey."
                  /\ UNCHANGED loggedIn
  /\ LoginFrame
  /\ UNCHANGED <<passkey, typedOriginal>>

\* the Change Passkey button of the login form
OpenPasskeyChange ==
  /\ ~loggedIn /\ ~isChangingPasskey
  /\ isChangingPasskey' = TRUE
  /\ LoginFrame
  /\ UNCHANGED <<localStorage, passkey, error, newPasskey, confirmPasskey,
                 isFirstTime, loggedIn, typedOriginal>>

\* the Cancel button of the change-passkey form
CancelPasskeyChange ==
  /\ ~loggedIn /\ isChangingPasskey /\ ~isFirstTime
  /\ isChangingPasskey' = FALSE
  /\ newPasskey' = ""
  /\ confirmPasskey' = ""
  /\ error' = ""
  /\ LoginFrame
  /\ UNCHANGED <<localStorage, passkey, isFirstTime, loggedIn, typedOriginal>>

LoginNext ==
  \/ SetPasskey \/ SetNewPasskey \/ SetConfirmPasskey
  \/ handleLogin \/ handlePasskeyChange
  \/ OpenPasskeyChange \/ CancelPasskeyChange

LoginSpec == LoginInit /\ [][LoginNext]_vars

\* C28: once a passkey is stored, no sequence of login-page actions by a user
\* who never types the passkey stored at the start leads to onLogin(true), and
\* the stored passkey is not replaced by such a user.
C28_PasskeyGate ==
  (Truthy(originalPasskey) /\ ~typedOriginal) =>
    /\ ~loggedIn
    /\ localStorage.encoder_passkey = originalPasskey

(***************************************************************************)
(* The dashboard of src/src/App.tsx.  startProcessing starts an interval   *)
(* timer with setInterval; the function it returns, which would clear the  *)
(* timer, is dropped by the onClick that called it, and the Stop button    *)
(* only sets isProcessing.  processIntervals counts the timers that are    *)
(* running; each of them calls processBatch when it fires.                 *)
(***************************************************************************)
\* interval timers of one run of the model
MaxIntervals == 4
\* timer firings of one run of the model
MaxTicks == 8

\* the configuration the mount effect found in 'encoderApp'
StoredConfiguration == [type |-> "object", id |-> "cfg1", processingInterval |-> 30]

EncoderApp(config, timestamp) ==
  Json([configuration |-> config, lastProcessedTimestamp |-> timestamp])

\* the state after the first render and the mount effect
AppInit ==
  /\ EngineIdle
  /\ ProviderIdle
  /\ LoginIdle
  /\ last = [op |-> "none"]
  /\ now = 0
  /\ isProcessing = FALSE
  /\ lastProcessedTimestamp = Src("")
  /\ processIntervals = 0
  /\ \/ /\ localStorage = EmptyStorage
        /\ configuration = Null
     \/ /\ localStorage =
             [EmptyStorage EXCEPT !.encoderApp = EncoderApp(StoredConfiguration, Src(""))]
        /\ configuration = StoredConfiguration

AppFrame == UNCHANGED <<engineVars, providerVars, loginVars, configuration>>

\* the button of the dashboard while it reads Start Processing
startProcessing ==
  /\ ~isProcessing
  /\ processIntervals < MaxIntervals
  /\ IF ~Truthy(configuration)
     THEN UNCHANGED <<isProcessing, processIntervals>>
     ELSE /\ isProcessing' = TRUE
          /\ processIntervals' = processIntervals + 1
  /\ last' = [op |-> "startProcessing"]
  /\ AppFrame
  /\ UNCHANGED <<localStorage, now, lastProcessedTimestamp>>

\* the same button while it reads Stop Processing: () => setIsProcessing(false)
StopProcessing ==
  /\ isProcessing
  /\ isProcessing' = FALSE
  /\ last' = [op |-> "stopProcessing"]
  /\ AppFrame
  /\ UNCHANGED <<localStorage, now, lastProcessedTimestamp, processIntervals>>

\* saveToStorage(data) for data = { lastProcessedTimestamp }
saveToStorage(ls, timestamp) ==
  LET current == IF ls.encoderApp.type = "json" THEN ls.encoderApp.val
                 ELSE [configuration |-> Undefined, lastProcessedTimestamp |-> Undefined]
  IN [ls EXCEPT !.encoderApp = Json([current EXCEPT !.lastProcessedTimestamp = timestamp])]

\* a running interval timer fires: processBatch with the configuration of the
\* render that started the timer (fetchNewRows returns no rows)
processBatch ==
  /\ processIntervals > 0
  /\ now < MaxTicks
  /\ now' = now + 1
  /\ lastProcessedTimestamp' = Iso(now')
  /\ localStorage' = saveToStorage(localStorage, Iso(now'))
  /\ last' = [op |-> "processBatch"]
  /\ AppFrame
  /\ UNCHANGED <<isProcessing, processIntervals>>

AppNext == startProcessing \/ StopProcessing \/ processBatch

AppSpec == AppInit /\ [][AppNext]_vars

\* C29: after any sequence of Start Processing and Stop Processing clicks a
\* periodic batch timer is active only while isProcessing is true, at most one
\* is active at a time, and no processBatch runs after Stop Processing until
\* Start Processing is clicked again.
C29_TimerFollowsFlag ==
  /\ processIntervals > 0 => isProcessing
  /\ processIntervals <= 1
  /\ last.op = "processBatch" => isProcessing

(***************************************************************************)
(* The algorithms of src/src/App.tsx: the objects encodingAlgorithms and   *)
(* decodingAlgorithms.  An App.tsx formula is [type, parameters]; the      *)
(* positions of a 'position' formula are 0-based indices.                  *)
(***************************************************************************)
\* one character of encodingAlgorithms.caesar
encodingCaesarChar(ch, shift) ==
  IF IsLetter(ch)
  THEN LET base == IF ch <= 90 THEN 65 ELSE 97
       IN FromCharCode(JSRem(ch - base + shift, 26) + base)
  ELSE IF IsDigit(ch)
       THEN FromCharCode(JSRem(ch - 48 + shift, 10) + 48)
       ELSE ch

encodingCaesar(text, shift) ==
  [i \in 1..Len(text) |-> encodingCaesarChar(text[i], shift)]

encodingReverse(text) == Reverse(text)

\* positions.map(pos => chars[pos] || '').join('')
encodingPosition(text, positions) ==
  Join([i \in 1..Len(positions) |->
          IF positions[i] + 1 \in 1..Len(text) THEN <<text[positions[i] + 1]>> ELSE <<>>])

encodingCustom(text, mapping) == customMapping(text, mapping)

decodingCaesar(text, shift) == encodingCaesar(text, -shift)

decodingReverse(text) == encodingReverse(text)

\* result[pos] = chars[i] for each i, then result.join(''): a hole or an
\* undefined element joins as the empty string
decodingPosition(text, positions) ==
  LET top == IF positions = <<>> THEN 0
             ELSE CHOOSE m \in {positions[i] + 1 : i \in 1..Len(positions)} :
                    \A i \in 1..Len(positions) : positions[i] + 1 <= m
      length == IF top > Len(positions) THEN top ELSE Len(positions)
      writers(j) == {i \in 1..Len(positions) : positions[i] + 1 = j}
      lastWriter(j) == CHOOSE i \in writers(j) : \A k \in writers(j) : k <= i
  IN Join([j \in 1..length |->
             IF writers(j) # {} /\ lastWriter(j) <= Len(text)
             THEN <<text[lastWriter(j)]>> ELSE <<>>])

\* Object.fromEntries(Object.entries(mapping).map(([k, v]) => [v, k]))
decodingCustom(text, mapping) == reverseCustomMapping(text, mapping)

AppFormula(type, parameters) == [type |-> type, parameters |-> parameters]

applyEncoding(text, f) ==
  CASE f.type = "caesar" -> encodingCaesar(text, f.parameters.shift)
    [] f.type = "reverse" -> encodingReverse(text)
    [] f.type = "position" -> encodingPosition(text, f.parameters.positions)
    [] f.type = "custom" -> encodingCustom(text, f.parameters.mapping)
    [] OTHER -> text

\* the decoding algorithm of the formula's type
applyDecoding(text, f) ==
  CASE f.type = "caesar" -> decodingCaesar(text, f.parameters.shift)
    [] f.type = "reverse" -> decodingReverse(text)
    [] f.type = "position" -> decodingPosition(text, f.parameters.positions)
    [] f.type = "custom" -> decodingCustom(text, f.parameters.mapping)
    [] OTHER -> text

AppAlphabet == {Code.A, Code.Z, Code.a, Code.d0, Code.d9, Code.dash}

AppStrings == UNION {[1..n -> AppAlphabet] : n \in 0..MaxLen} \cup {ABCDE}

\* the permutations of the indices 0..n-1
IndexPermutations(n) ==
  {p \in [1..n -> 0..(n - 1)] : \A i, j \in 1..n : p[i] = p[j] => i = j}

\* the formulas tried on the string text: every caesar shift of one turn of
\* the alphabet, reverse, the permutations of its indices, the positions of
\* the default 'position-shuffle' formula, and a custom mapping
AppFormulas(text) ==
  {AppFormula("caesar", [shift |-> sh]) : sh \in 0..25}
  \cup {AppFormula("reverse", [shift |-> 0])}
  \cup {AppFormula("position", [positions |-> p]) : p \in IndexPermutations(Len(text))}
  \cup {AppFormula("position", [positions |-> <<3, 1, 4, 0, 2>>])}
  \cup {AppFormula("custom", [mapping |-> MapObj(<<<<Code.a, <<Code.d9>>>>>>)])}

AlgorithmInit ==
  /\ ProviderIdle
  /\ LoginIdle
  /\ AppIdle
  /\ localStorage = EmptyStorage
  /\ now = 0
  /\ jsGlobal = FALSE
  /\ last = [op |-> "none"]
  /\ \E text \in AppStrings :
       /\ value = Str(text)
       /\ formula \in AppFormulas(text)

AlgorithmFrame ==
  UNCHANGED <<value, formula, jsGlobal, configVars, loginVars, appVars>>

ApplyEncoding ==
  /\ last' = [op |-> "applyEncoding", out |-> Str(applyEncoding(value.chars, formula))]
  /\ AlgorithmFrame

ApplyDecoding ==
  /\ last' = [op |-> "applyDecoding", out |-> Str(applyDecoding(value.chars, formula))]
  /\ AlgorithmFrame

\* the decoding algorithm applied to what the encoding algorithm returns
RoundTrip ==
  /\ LET encoded == applyEncoding(value.chars, formula)
     IN last' = [op |-> "roundTrip", encoded |-> Str(encoded),
                 decoded |-> Str(applyDecoding(encoded, formula))]
  /\ AlgorithmFrame

AlgorithmNext == ApplyEncoding \/ ApplyDecoding \/ RoundTrip

AlgorithmSpec == AlgorithmInit /\ [][AlgorithmNext]_vars

IsPermutation(p, n) ==
  /\ Len(p) = n
  /\ \A i \in 1..n : p[i] \in 0..(n - 1)
  /\ \A i, j \in 1..n : p[i] = p[j] => i = j

\* C30: in App.tsx the decoding algorithms reverse the encoding algorithms:
\* caesar for every shift in 0..25, reverse, and position for every
\* permutation of the indices of x, each give back every string x.
C30_DecodingReversesEncoding ==
  ( /\ last.op = "roundTrip"
    /\ \/ formula.type = "caesar" /\ formula.parameters.shift \in 0..25
       \/ formula.type = "reverse"
       \/ /\ formula.type = "position"
          /\ IsPermutation(formula.parameters.positions, Len(value.chars)) )
    => last.decoded = value

====
